---------------------------- MODULE Spec2Model ----------------------------
(***************************************************************************)
(* A model of genmsg/gentools.py: dependency resolution over the message   *)
(* registry, the md5 canonical text, the two fingerprint schemes and the   *)
(* full-text assembly.                                                     *)
(*                                                                         *)
(* Conventions                                                             *)
(*  - A Python str is a TLA+ string.  A StringIO buffer is the sequence of *)
(*    the pieces written to it; whitespace characters are pieces of their  *)
(*    own, so that strip() and [:-1] act on the ends of the buffer.        *)
(*    Flat(buf) is getvalue().                                             *)
(*  - str is the byte string of Python 2 (hash.update accepts it), the     *)
(*    interpreter compute_md5's md5/hashlib fallback is written for.       *)
(*  - md5 is modelled as an ideal digest: hexdigest() of a context is an   *)
(*    injective tag of the bytes fed to it.                                *)
(*  - A Python call returns a record whose field err is "none" or the      *)
(*    name of the exception that propagated out of it.                     *)
(*  - A type name is a record [pkg, name, arr]: the text of the type is    *)
(*    pkg/name followed by the array annotation arr.                       *)
(***************************************************************************)
EXTENDS Integers, Sequences, FiniteSets, TLC

VARIABLES registry, arg, last

vars == <<registry, arg, last>>

-----------------------------------------------------------------------------
(* Bounds of the model *)

\* longest uniquedeps list of a caller-supplied bundle
MaxDeps == 2

-----------------------------------------------------------------------------
(* Strings and buffers *)

RECURSIVE Flat(_)
Flat(buf) == IF buf = <<>> THEN "" ELSE Head(buf) \o Flat(Tail(buf))

RECURSIVE Rep(_, _)
Rep(s, n) == IF n = 0 THEN "" ELSE s \o Rep(s, n - 1)

\* one piece per non-empty string written with %s
Piece(s) == IF s = "" THEN <<>> ELSE <<s>>

WHITESPACE == {" ", "\n", "\t", "\r"}

RECURSIVE LStrip(_)
LStrip(buf) ==
    IF buf = <<>> THEN <<>>
    ELSE IF Head(buf) \in WHITESPACE THEN LStrip(Tail(buf)) ELSE buf

RECURSIVE RStrip(_)
RStrip(buf) ==
    IF buf = <<>> THEN <<>>
    ELSE IF buf[Len(buf)] \in WHITESPACE
         THEN RStrip(SubSeq(buf, 1, Len(buf) - 1)) ELSE buf

\* str.strip(): every leading and trailing whitespace character goes
Strip(buf) == RStrip(LStrip(buf))

\* s[:-1]: the last character goes.  The buffers it is applied to end with a
\* one-character piece; a longer last piece is marked as cut.
ChopLast(buf) ==
    IF buf = <<>> THEN <<>>
    ELSE IF Len(buf[Len(buf)]) = 1 THEN SubSeq(buf, 1, Len(buf) - 1)
    ELSE Append(SubSeq(buf, 1, Len(buf) - 1), "<cut>")

\* hashlib.md5().hexdigest() after the updates that accumulated h
Hexdigest(h) == "md5<" \o h \o ">"

-----------------------------------------------------------------------------
(* Type names *)

T(pkg, name, arr) == [pkg |-> pkg, name |-> name, arr |-> arr]

\* the text of a type name without its array annotation
TypeName(t) == IF t.pkg = "" THEN t.name ELSE t.pkg \o "/" \o t.name

\* the text of a declared field type
TypeText(t) == TypeName(t) \o t.arr

\* msgs.base_msg_type: the array annotation is stripped
base_msg_type(t) == T(t.pkg, t.name, "")

BUILTIN_TYPES == {"int32", "float64", "string"}

\* msgs.is_builtin
is_builtin(t) == t.pkg = "" /\ t.name \in BUILTIN_TYPES

\* '/' in t
HasSep(t) == t.pkg # ""

\* names.package_resource_name
package_resource_name(t) == <<t.pkg, t.name>>

-----------------------------------------------------------------------------
(* The schemas of the model: MsgSpec and SrvSpec objects, by identifier *)

Const(type, name, val_text) == [type |-> type, name |-> name, val_text |-> val_text]

\* MsgSpec(types, names, constants, text)
Msg(types, names, constants, text) ==
    [kind |-> "msg", types |-> types, names |-> names, constants |-> constants,
     text |-> text, request |-> "", response |-> ""]

\* SrvSpec(request, response, text)
Srv(request, response, text) ==
    [kind |-> "srv", types |-> <<>>, names |-> <<>>, constants |-> <<>>,
     text |-> text, request |-> request, response |-> response]

\* a value that is neither a MsgSpec nor a SrvSpec (it has no text attribute)
Other == [kind |-> "other", types |-> <<>>, names |-> <<>>, constants |-> <<>>,
          text |-> <<>>, request |-> "", response |-> ""]

F64 == T("", "float64", "")
I32 == T("", "int32", "")

KonstFields == <<T("", "float64", "[]")>>

SPECS ==
    [Empty   |-> Msg(<<>>, <<>>, <<>>, <<>>),
     Point   |-> Msg(<<F64, F64>>, <<"x", "y">>, <<>>,
                     <<"float64", " ", "x", "\n", "float64", " ", "y", "\n">>),
     IntA    |-> Msg(<<I32>>, <<"a">>, <<>>, <<"int32", " ", "a", "\n">>),
     IntB    |-> Msg(<<I32>>, <<"b">>, <<>>, <<"int32", " ", "b">>),
     Konst   |-> Msg(KonstFields, <<"v">>,
                     <<Const("int32", "K", "1"), Const("string", "S", "")>>,
                     <<"float64[]", " ", "v", "\n", "int32", " ", "K", "=", "1", "\n",
                       "string", " ", "S", "=", "\n">>),
     KonstR  |-> Msg(KonstFields, <<"v">>,
                     <<Const("string", "S", ""), Const("int32", "K", "1")>>,
                     <<"string", " ", "S", "=", "\n", "int32", " ", "K", "=", "1", "\n",
                       "float64[]", " ", "v", "\n">>),
     Polygon |-> Msg(<<T("", "Point", "[]")>>, <<"points">>, <<>>,
                     <<"Point[]", " ", "points", "\n">>),
     PolyP   |-> Msg(<<T("pkg", "Point", "[]")>>, <<"points">>, <<>>,
                     <<"pkg/Point[]", " ", "points", "\n">>),
     PolyO   |-> Msg(<<T("other", "Point", "[]")>>, <<"points">>, <<>>,
                     <<"other/Point[]", " ", "points", "\n">>),
     Root    |-> Msg(<<T("pkg", "A", ""), I32, T("pkg", "A", "")>>, <<"a1", "n", "a2">>, <<>>,
                     <<"pkg/A", " ", "a1", "\n", "int32", " ", "n", "\n",
                       "pkg/A", " ", "a2", "\n">>),
     A       |-> Msg(<<T("pkg", "B", "")>>, <<"b">>, <<>>, <<"pkg/B", " ", "b", "\n">>),
     B       |-> Msg(<<I32>>, <<"v">>, <<>>, <<"int32", " ", "v", "\n">>),
     Outer   |-> Msg(<<T("other", "Mid", "")>>, <<"m">>, <<>>,
                     <<"other/Mid", " ", "m", "\n">>),
     Mid     |-> Msg(<<T("", "Point", "")>>, <<"p">>, <<>>, <<"Point", " ", "p", "\n">>),
     Loop    |-> Msg(<<T("pkg", "Loop", "")>>, <<"next">>, <<>>,
                     <<"pkg/Loop", " ", "next", "\n">>),
     SrvAB   |-> Srv("IntA", "IntB", <<"int32", " ", "a", "\n", "---", "\n", "int32", " ", "b", "\n">>),
     SrvBA   |-> Srv("IntB", "IntA", <<"int32", " ", "b", "\n", "---", "\n", "int32", " ", "a", "\n">>),
     SrvAA   |-> Srv("IntA", "IntA", <<"int32", " ", "a", "\n", "---", "\n", "int32", " ", "a", "\n">>),
     SrvAE   |-> Srv("IntA", "Empty", <<"int32", " ", "a", "\n", "---", "\n">>),
     SrvEA   |-> Srv("Empty", "IntA", <<"---", "\n", "int32", " ", "a", "\n">>),
     SrvPA   |-> Srv("Polygon", "Root", <<"Point[]", " ", "points", "\n", "---", "\n",
                                         "pkg/A", " ", "a1", "\n", "int32", " ", "n", "\n",
                                         "pkg/A", " ", "a2", "\n">>),
     NotASpec |-> Other]

SpecIds == DOMAIN SPECS

MsgIds == {s \in SpecIds : SPECS[s].kind = "msg"}

SrvIds == {s \in SpecIds : SPECS[s].kind = "srv"}

Packages == {"pkg", "other"}

\* the search path handed to load_by_type
IncludePath == "includepath"

-----------------------------------------------------------------------------
(* The registry of msgs (external to gentools.py): registered name -> schema *)

\* what load_by_type finds on the search path
DISK ==
    [x \in {"pkg/Point", "other/Point", "pkg/A", "pkg/B", "other/Mid", "pkg/Loop"} |->
        CASE x = "pkg/Point"   -> "Point"
          [] x = "other/Point" -> "Point"
          [] x = "pkg/A"       -> "A"
          [] x = "pkg/B"       -> "B"
          [] x = "other/Mid"   -> "Mid"
          [] x = "pkg/Loop"    -> "Loop"]

Restrict(f, S) == [x \in S |-> f[x]]

\* the registry states a call can start from
Registries ==
    { DISK,
      [x \in DOMAIN DISK \cup {"Point"} |-> IF x = "Point" THEN "Point" ELSE DISK[x]],
      Restrict(DISK, {"pkg/Point", "pkg/A"}),
      Restrict(DISK, {}) }

\* msgs.is_registered
is_registered(reg, t) == TypeName(t) \in DOMAIN reg

\* msgs.get_registered(d): the schema registered under the name d
get_registered_name(reg, d) ==
    IF d \in DOMAIN reg THEN [err |-> "none", spec |-> reg[d]]
    ELSE [err |-> "KeyError", spec |-> ""]

\* msgs.get_registered(t, default_package): the schema registered under the
\* name, else under default_package/name for a name without package
get_registered(reg, t, default_package) ==
    IF TypeName(t) \in DOMAIN reg THEN [err |-> "none", spec |-> reg[TypeName(t)]]
    ELSE IF default_package # "" /\ ~HasSep(t)
              /\ default_package \o "/" \o t.name \in DOMAIN reg
         THEN [err |-> "none", spec |-> reg[default_package \o "/" \o t.name]]
         ELSE [err |-> "KeyError", spec |-> ""]

\* msgs.load_by_type(t, includepath, package_context): (key, schema) or failure
load_by_type(t, includepath, package_context) ==
    LET key == IF HasSep(t) THEN TypeName(t) ELSE package_context \o "/" \o t.name
    IN  IF key \in DOMAIN DISK
        THEN [err |-> "none", key |-> key, spec |-> DISK[key]]
        ELSE [err |-> "MsgNotFound", key |-> key, spec |-> ""]

\* msgs.register(key, schema)
register(reg, key, spec) == [x \in DOMAIN reg \cup {key} |-> IF x = key THEN spec ELSE reg[x]]

-----------------------------------------------------------------------------
(* The module's namespace and Python's call protocol *)

\* the names bound at module level: the imports (lines 43-54), the constant
\* of line 57 and the functions defined with def
ModuleGlobals ==
    {"sys", "StringIO", "msgs", "MsgSpecException", "MsgSpec", "SrvSpec", "names",
     "_header_type_name", "_add_msgs_depends", "compute_md5_text", "_compute_hash",
     "_compute_hash_v1", "compute_md5_v1", "compute_md5", "compute_md5_v2",
     "compute_full_text", "get_dependencies"}

\* evaluating a global name that is not bound raises NameError
NameBound(n) == n \in ModuleGlobals

\* the positional parameters of _add_msgs_depends:
\* spec, deps, package_context, includepath
AddMsgsDependsArity == 4

\* the outcome of a dependency walk: the exception, the list deps as the walk
\* left it, and the registry as the walk left it
Walk(err, deps, reg) == [err |-> err, deps |-> deps, reg |-> reg]

-----------------------------------------------------------------------------
(* _add_msgs_depends *)

RECURSIVE call_add_msgs_depends(_, _, _)
RECURSIVE add_msgs_depends_loop(_, _, _, _, _, _)

\* what lines 70-79 leave for a type: the exception, the schema depspec to
\* recurse into, the list deps and the registry
Resolved(err, depspec, deps, reg) ==
    [err |-> err, depspec |-> depspec, deps |-> deps, reg |-> reg]

\* the lazy-load branch (lines 77-79) after load_by_type returned l: nothing
\* is appended to deps on this branch
lazy_load(reg, l, deps) ==
    IF l.err # "none" THEN Resolved(l.err, "", deps, reg)
    ELSE IF ~NameBound("rosidl") THEN Resolved("NameError", "", deps, reg)
    ELSE Resolved("none", l.spec, deps, register(reg, l.key, l.spec))

\* lines 70-79 for the base type t, which is not builtin
resolve_type(reg, t, deps, package_context, includepath) ==
    IF is_registered(reg, t)
    THEN Resolved("none", reg[TypeName(t)],
                  IF HasSep(t) THEN Append(deps, TypeName(t))
                  ELSE Append(deps, package_context \o "/" \o TypeName(t)),
                  reg)
    ELSE lazy_load(reg, load_by_type(t, includepath, package_context), deps)

\* line 80: the recursive call on depspec
recurse(p, package_context, includepath) ==
    IF p.err # "none" THEN Walk(p.err, p.deps, p.reg)
    ELSE call_add_msgs_depends(p.reg, p.deps,
                               <<p.depspec, p.deps, package_context, includepath>>)

\* one iteration of the for loop (lines 68-80) for the base type t
visit_type(reg, t, deps, package_context, includepath) ==
    IF is_builtin(t) THEN Walk("none", deps, reg)
    ELSE recurse(resolve_type(reg, t, deps, package_context, includepath),
                 package_context, includepath)

\* the for loop after the iteration for the i-th type ended as r
loop_rest(r, spec, i, package_context, includepath) ==
    IF r.err # "none" THEN r
    ELSE add_msgs_depends_loop(r.reg, spec, i + 1, r.deps, package_context, includepath)

\* the for loop of _add_msgs_depends from the i-th type of spec on
add_msgs_depends_loop(reg, spec, i, deps, package_context, includepath) ==
    IF i > Len(SPECS[spec].types) THEN Walk("none", deps, reg)
    ELSE loop_rest(visit_type(reg, base_msg_type(SPECS[spec].types[i]), deps,
                              package_context, includepath),
                   spec, i, package_context, includepath)

\* the body of _add_msgs_depends: the call of log, then the loop
add_msgs_depends(reg, spec, deps, package_context, includepath) ==
    IF ~NameBound("log") THEN Walk("NameError", deps, reg)
    ELSE add_msgs_depends_loop(reg, spec, 1, deps, package_context, includepath)

\* a call _add_msgs_depends(*args): the positional arguments are bound to the
\* parameters before the body runs, and a missing one raises TypeError
call_add_msgs_depends(reg, deps, args) ==
    IF Len(args) # AddMsgsDependsArity THEN Walk("TypeError", deps, reg)
    ELSE add_msgs_depends(reg, args[1], args[2], args[3], args[4])

-----------------------------------------------------------------------------
(* get_dependencies *)

RECURSIVE unique(_, _)
\* the loop that builds uniquedeps from deps (lines 265-268)
unique(deps, uniquedeps) ==
    IF deps = <<>> THEN uniquedeps
    ELSE unique(Tail(deps),
                IF \E k \in 1..Len(uniquedeps) : uniquedeps[k] = Head(deps)
                THEN uniquedeps ELSE Append(uniquedeps, Head(deps)))

\* the dict get_dependencies returns; files holds whether it has the key 'files'
Bundle(spec, package, files, deps, uniquedeps) ==
    [spec |-> spec, package |-> package, files |-> files,
     deps |-> deps, uniquedeps |-> uniquedeps]

NoBundle == Bundle("", "", FALSE, <<>>, <<>>)

\* the outcome of get_dependencies: the exception, the returned dict, the registry
Deps(err, val, reg) == [err |-> err, val |-> val, reg |-> reg]

\* line 247: the walk of the response after the walk of the request ended as q
walk_response(q, spec, package) ==
    IF q.err # "none" THEN q
    ELSE call_add_msgs_depends(q.reg, q.deps, <<SPECS[spec].response, q.deps, package>>)

\* lines 243-249
walk_spec(reg, spec, package) ==
    IF SPECS[spec].kind = "msg"
    THEN call_add_msgs_depends(reg, <<>>, <<spec, <<>>, package>>)
    ELSE IF SPECS[spec].kind = "srv"
    THEN walk_response(call_add_msgs_depends(reg, <<>>,
                                             <<SPECS[spec].request, <<>>, package>>),
                       spec, package)
    ELSE Walk("MsgSpecException", <<>>, reg)

\* lines 250-273 after the try block ended as w: KeyError is re-raised as
\* MsgSpecException, anything else propagates, and otherwise the dict is built
finish_dependencies(w, spec, package, compute_files) ==
    IF w.err = "KeyError" THEN Deps("MsgSpecException", NoBundle, w.reg)
    ELSE IF w.err # "none" THEN Deps(w.err, NoBundle, w.reg)
    ELSE Deps("none",
              Bundle(spec, package, compute_files, w.deps, unique(w.deps, <<>>)),
              w.reg)

get_dependencies(reg, spec, package, compute_files) ==
    finish_dependencies(walk_spec(reg, spec, package), spec, package, compute_files)

-----------------------------------------------------------------------------
(* compute_md5_text, _compute_hash, compute_md5 *)

\* the outcome of a call that returns a string: the exception, the string, the
\* registry as the call left it
Ret(err, val, reg) == [err |-> err, val |-> val, reg |-> reg]

\* the state of the canonicalizer's loop: the exception, the buffer, the registry
Buf(err, buff, reg) == [err |-> err, buff |-> buff, reg |-> reg]

RECURSIVE constant_lines(_)
\* the loop over spec.constants (lines 100-101)
constant_lines(cs) ==
    IF cs = <<>> THEN <<>>
    ELSE Piece(Head(cs).type) \o <<" ">> \o Piece(Head(cs).name) \o <<"=">>
         \o Piece(Head(cs).val_text) \o <<"\n">> \o constant_lines(Tail(cs))

RECURSIVE field_lines(_, _, _, _, _)
RECURSIVE compute_md5(_, _)

\* line 116 after compute_md5 ended as sub_md5
write_sub_md5(sub_md5, name, buff) ==
    IF sub_md5.err # "none" THEN Buf(sub_md5.err, buff, sub_md5.reg)
    ELSE Buf("none", buff \o Piece(sub_md5.val) \o <<" ">> \o Piece(name) \o <<"\n">>,
             sub_md5.reg)

\* line 115 after get_dependencies ended as sub_deps
sub_fingerprint(sub_deps, name, buff) ==
    IF sub_deps.err # "none" THEN Buf(sub_deps.err, buff, sub_deps.reg)
    ELSE write_sub_md5(compute_md5(sub_deps.reg, sub_deps.val), name, buff)

\* lines 111-114 after get_registered ended as sub_spec
sub_dependencies(sub_spec, reg, get_deps_dict, base, name, buff) ==
    IF sub_spec.err # "none" THEN Buf(sub_spec.err, buff, reg)
    ELSE sub_fingerprint(
            get_dependencies(reg, sub_spec.spec,
                             IF package_resource_name(base)[1] # ""
                             THEN package_resource_name(base)[1]
                             ELSE get_deps_dict.package,
                             get_deps_dict.files),
            name, buff)

\* one iteration of the loop over the fields (lines 103-116)
field_line(reg, get_deps_dict, type_, name, buff) ==
    IF is_builtin(base_msg_type(type_))
    THEN Buf("none", buff \o Piece(TypeText(type_)) \o <<" ">> \o Piece(name) \o <<"\n">>,
             reg)
    ELSE sub_dependencies(get_registered(reg, base_msg_type(type_), get_deps_dict.package),
                          reg, get_deps_dict, base_msg_type(type_), name, buff)

\* the loop over the fields after the iteration for the i-th field ended as r
fields_rest(r, get_deps_dict, spec, i) ==
    IF r.err # "none" THEN r
    ELSE field_lines(r.reg, get_deps_dict, spec, i + 1, r.buff)

\* the loop over zip(spec.types, spec.names) from the i-th field on; buff is
\* the buffer so far
field_lines(reg, get_deps_dict, spec, i, buff) ==
    IF i > Len(SPECS[spec].types) \/ i > Len(SPECS[spec].names)
    THEN Buf("none", buff, reg)
    ELSE fields_rest(field_line(reg, get_deps_dict, SPECS[spec].types[i],
                                SPECS[spec].names[i], buff),
                     get_deps_dict, spec, i)

\* line 118: buff.getvalue().strip()
stripped_value(r) ==
    IF r.err # "none" THEN Ret(r.err, "", r.reg)
    ELSE Ret("none", Flat(Strip(r.buff)), r.reg)

compute_md5_text(reg, get_deps_dict, spec) ==
    \* only a MsgSpec has constants, types and names
    IF SPECS[spec].kind # "msg" THEN Ret("AttributeError", "", reg)
    ELSE stripped_value(field_lines(reg, get_deps_dict, spec, 1,
                                    constant_lines(SPECS[spec].constants)))

\* digest_update with a digest context of its own for every text: what was
\* fed to the context before is lost
digest_update_fresh(m, hash) ==
    IF m.err # "none" THEN m ELSE Ret("none", Hexdigest(m.val), m.reg)

\* hash.update(m) and hexdigest() (line 138), when the text was computed as m;
\* hash is the byte string the digest context has been updated with
digest_update(m, hash) ==
    IF m.err # "none" THEN m ELSE Ret("none", Hexdigest(hash \o m.val), m.reg)

\* line 135 after the text of the request was computed as q
update_response(q, get_deps_dict, hash) ==
    IF q.err # "none" THEN q
    ELSE digest_update(compute_md5_text(q.reg, get_deps_dict,
                                        SPECS[get_deps_dict.spec].response),
                       hash \o q.val)

compute_hash(reg, get_deps_dict, hash) ==
    IF SPECS[get_deps_dict.spec].kind = "msg"
    THEN digest_update(compute_md5_text(reg, get_deps_dict, get_deps_dict.spec), hash)
    ELSE IF SPECS[get_deps_dict.spec].kind = "srv"
    THEN update_response(compute_md5_text(reg, get_deps_dict,
                                          SPECS[get_deps_dict.spec].request),
                         get_deps_dict, hash)
    ELSE Ret("Exception", "", reg)

compute_md5(reg, get_deps_dict) == compute_hash(reg, get_deps_dict, "")

-----------------------------------------------------------------------------
(* _compute_hash_v1, compute_md5_v1 *)

RECURSIVE dependency_texts(_, _, _)

\* line 155 after get_registered(d) ended as d
update_dependency(d, reg, rest, hash) ==
    IF d.err # "none" THEN Ret(d.err, "", reg)
    ELSE dependency_texts(reg, rest, hash \o Flat(SPECS[d.spec].text))

\* the loop over uniquedeps (lines 154-155)
dependency_texts(reg, uniquedeps, hash) ==
    IF uniquedeps = <<>> THEN Ret("none", hash, reg)
    ELSE update_dependency(get_registered_name(reg, Head(uniquedeps)), reg,
                           Tail(uniquedeps), hash)

\* line 156: hexdigest()
hexdigest_v1(r) == IF r.err # "none" THEN r ELSE Ret("none", Hexdigest(r.val), r.reg)

compute_hash_v1(reg, get_deps_dict, hash) ==
    IF SPECS[get_deps_dict.spec].kind = "other" THEN Ret("AttributeError", "", reg)
    ELSE hexdigest_v1(dependency_texts(reg, get_deps_dict.uniquedeps,
                                       hash \o Flat(SPECS[get_deps_dict.spec].text)))

compute_md5_v1(reg, get_deps_dict) == compute_hash_v1(reg, get_deps_dict, "")

-----------------------------------------------------------------------------
(* compute_full_text *)

\* the width of the separator line
SepWidth == 80

sep == <<Rep("=", SepWidth), "\n">>

RECURSIVE embedded_types(_, _, _)

\* lines 210-213 after get_registered(d) ended as r
write_embedded(r, reg, d, rest, buff) ==
    IF r.err # "none" THEN Buf(r.err, buff, reg)
    ELSE embedded_types(reg, rest,
                        buff \o sep \o <<"MSG:", " ">> \o Piece(d) \o <<"\n">>
                             \o SPECS[r.spec].text \o <<"\n">>)

\* the loop over uniquedeps (lines 209-213); buff is the buffer so far
embedded_types(reg, uniquedeps, buff) ==
    IF uniquedeps = <<>> THEN Buf("none", buff, reg)
    ELSE write_embedded(get_registered_name(reg, Head(uniquedeps)), reg,
                        Head(uniquedeps), Tail(uniquedeps), buff)

\* chopped_value with strip() in place of [:-1], as compute_md5_text ends
chopped_value_stripped(r) ==
    IF r.err # "none" THEN Ret(r.err, "", r.reg)
    ELSE Ret("none", Flat(Strip(r.buff)), r.reg)

\* line 215: buff.getvalue()[:-1]
chopped_value(r) ==
    IF r.err # "none" THEN Ret(r.err, "", r.reg)
    ELSE Ret("none", Flat(ChopLast(r.buff)), r.reg)

compute_full_text(reg, get_deps_dict) ==
    IF SPECS[get_deps_dict.spec].kind = "other" THEN Ret("AttributeError", "", reg)
    ELSE chopped_value(embedded_types(reg, get_deps_dict.uniquedeps,
                                      SPECS[get_deps_dict.spec].text \o <<"\n">>))

-----------------------------------------------------------------------------
(* The calls a client of the module makes.  registry is the registry of     *)
(* msgs, arg the dict the client holds (the shape get_dependencies returns),*)
(* last the call that finished last.                                       *)

DepNames == {"pkg/Point", "pkg/B", "pkg/Nope"}

DepLists == UNION {[1..n -> DepNames] : n \in 0..MaxDeps}

\* the dicts a caller can hand to the compute_ functions
Bundles ==
    {Bundle(s, p, f, u, u) : s \in SpecIds, p \in Packages, f \in BOOLEAN, u \in DepLists}

\* a finished call: the function, the schema it was applied to, the exception
\* that left it ("none" when it returned), the returned string, the deps list
Call(op, target, err, val, deps, uniquedeps) ==
    [op |-> op, target |-> target, err |-> err, val |-> val,
     deps |-> deps, uniquedeps |-> uniquedeps]

NoCall == Call("none", "", "none", "", <<>>, <<>>)

\* the message schemas of the schema s: itself, or its request and response
Targets(s) == IF SPECS[s].kind = "srv" THEN {SPECS[s].request, SPECS[s].response} ELSE {s}

Init ==
    /\ registry \in Registries
    /\ arg \in Bundles
    /\ last = NoCall

\* get_dependencies(spec, package, compute_files); msgs._init() (line 239)
\* leaves an initialised registry as it is
GetDependencies ==
    LET r == get_dependencies(registry, arg.spec, arg.package, arg.files) IN
    /\ registry' = r.reg
    /\ last' = Call("get_dependencies", arg.spec, r.err, "", r.val.deps, r.val.uniquedeps)
    /\ UNCHANGED arg

\* _add_msgs_depends(spec, [], package, includepath)
AddMsgsDepends ==
    \E t \in Targets(arg.spec) :
        LET r == call_add_msgs_depends(registry, <<>>, <<t, <<>>, arg.package, IncludePath>>) IN
        /\ registry' = r.reg
        /\ last' = Call("_add_msgs_depends", t, r.err, "", r.deps, <<>>)
        /\ UNCHANGED arg

\* compute_md5_text(get_deps_dict, spec)
ComputeMd5Text ==
    \E t \in Targets(arg.spec) :
        LET r == compute_md5_text(registry, arg, t) IN
        /\ registry' = r.reg
        /\ last' = Call("compute_md5_text", t, r.err, r.val, <<>>, <<>>)
        /\ UNCHANGED arg

\* compute_md5(get_deps_dict)
ComputeMd5 ==
    LET r == compute_md5(registry, arg) IN
    /\ registry' = r.reg
    /\ last' = Call("compute_md5", arg.spec, r.err, r.val, <<>>, <<>>)
    /\ UNCHANGED arg

\* compute_md5_v1(get_deps_dict)
ComputeMd5V1 ==
    LET r == compute_md5_v1(registry, arg) IN
    /\ registry' = r.reg
    /\ last' = Call("compute_md5_v1", arg.spec, r.err, r.val, <<>>, <<>>)
    /\ UNCHANGED arg

\* compute_full_text(get_deps_dict)
ComputeFullText ==
    LET r == compute_full_text(registry, arg) IN
    /\ registry' = r.reg
    /\ last' = Call("compute_full_text", arg.spec, r.err, r.val, <<>>, <<>>)
    /\ UNCHANGED arg

Next ==
    \/ GetDependencies
    \/ AddMsgsDepends
    \/ ComputeMd5Text
    \/ ComputeMd5
    \/ ComputeMd5V1
    \/ ComputeFullText

Spec == Init /\ [][Next]_vars

-----------------------------------------------------------------------------
(* What the specification expects: the definitions the claims are stated with *)

\* every type load_by_type can find is registered
FullyRegistered == DOMAIN DISK \subseteq DOMAIN registry

\* the longest chain of references the expectations follow
Fuel == Cardinality(DOMAIN DISK) + 1

\* the qualified name of the base type t referenced from a schema of package pkg
Qualified(t, pkg) == IF HasSep(t) THEN TypeName(t) ELSE pkg \o "/" \o t.name

\* the package of a qualified name of the registry
PackageOf(key) == CHOOSE p \in Packages : \E n \in {"Point", "A", "B", "Mid", "Loop"} :
                                             key = p \o "/" \o n

NonBuiltin(s) ==
    {i \in 1..Len(SPECS[s].types) : ~is_builtin(base_msg_type(SPECS[s].types[i]))}

\* all field types of the schema are builtin
BuiltinOnly(s) == NonBuiltin(s) = {}

RECURSIVE ExpectedDepsFrom(_, _, _, _, _)
\* the pre-order, depth-first list of the dependencies of the schema s from
\* its i-th field on, every name without package qualified by pkg; the fields
\* of a dependency are qualified by the package of the dependency when
\* referencing holds, and by pkg otherwise
ExpectedDepsFrom(s, pkg, i, fuel, referencing) ==
    IF fuel = 0 \/ i > Len(SPECS[s].types) THEN <<>>
    ELSE IF i \notin NonBuiltin(s) THEN ExpectedDepsFrom(s, pkg, i + 1, fuel, referencing)
    ELSE LET key == Qualified(base_msg_type(SPECS[s].types[i]), pkg) IN
         IF key \notin DOMAIN DISK
         THEN <<key>> \o ExpectedDepsFrom(s, pkg, i + 1, fuel, referencing)
         ELSE <<key>>
              \o ExpectedDepsFrom(DISK[key], IF referencing THEN PackageOf(key) ELSE pkg,
                                  1, fuel - 1, referencing)
              \o ExpectedDepsFrom(s, pkg, i + 1, fuel, referencing)

\* the expected deps list of a message or service
ExpectedDeps(s, pkg, referencing) ==
    IF SPECS[s].kind = "srv"
    THEN ExpectedDepsFrom(SPECS[s].request, pkg, 1, Fuel, referencing)
         \o ExpectedDepsFrom(SPECS[s].response, pkg, 1, Fuel, referencing)
    ELSE ExpectedDepsFrom(s, pkg, 1, Fuel, referencing)

\* the schema refers to a type that is not builtin
HasDependency(s) ==
    \/ SPECS[s].kind = "msg" /\ ~BuiltinOnly(s)
    \/ SPECS[s].kind = "srv"
       /\ (~BuiltinOnly(SPECS[s].request) \/ ~BuiltinOnly(SPECS[s].response))

\* the <<schema, package>> pairs the fields of the pairs of S refer to
Successors(S) ==
    {<<DISK[k], PackageOf(k)>> :
        k \in {k \in DOMAIN DISK :
                 \E s \in S : \E i \in NonBuiltin(s[1]) :
                     k = Qualified(base_msg_type(SPECS[s[1]].types[i]), s[2])}}

RECURSIVE ReachableFrom(_, _)
\* the <<schema, package>> pairs whose fields the walk from the pairs of S visits
ReachableFrom(S, fuel) ==
    IF fuel = 0 \/ Successors(S) \subseteq S THEN S
    ELSE ReachableFrom(S \cup Successors(S), fuel - 1)

Roots(s, pkg) == {<<t, pkg>> : t \in IF SPECS[s].kind = "srv"
                                     THEN {SPECS[s].request, SPECS[s].response} ELSE {s}}

\* the reference edges <<schema, field>> of the graph reachable from s that
\* point to the type key
EdgesTo(s, pkg, key) ==
    {e \in UNION {{<<r[1], i, r[2]>> : i \in NonBuiltin(r[1])} :
                  r \in ReachableFrom(Roots(s, pkg), Fuel)} :
        Qualified(base_msg_type(SPECS[e[1]].types[e[2]]), e[3]) = key}

Occurrences(seq, x) == Cardinality({k \in 1..Len(seq) : seq[k] = x})

\* a schema reachable from s depends on itself through its field types
SelfDependent(s, pkg) ==
    \E r \in ReachableFrom(Roots(s, pkg), Fuel) : r \in ReachableFrom(Successors({r}), Fuel)

NoDuplicates(seq) == \A i, j \in 1..Len(seq) : seq[i] = seq[j] => i = j

RECURSIVE FirstOccurrences(_)
\* the elements of seq in the order of their first occurrence
FirstOccurrences(seq) ==
    IF seq = <<>> THEN <<>>
    ELSE LET front == FirstOccurrences(SubSeq(seq, 1, Len(seq) - 1)) IN
         IF \E k \in 1..Len(seq) - 1 : seq[k] = seq[Len(seq)] THEN front
         ELSE Append(front, seq[Len(seq)])

RECURSIVE Join(_)
\* the lines joined by newlines, none after the last
Join(lines) ==
    IF lines = <<>> THEN ""
    ELSE IF Len(lines) = 1 THEN lines[1]
    ELSE lines[1] \o "\n" \o Join(Tail(lines))

RECURSIVE ExpectedConstants(_)
\* one line per constant, in declaration order
ExpectedConstants(cs) ==
    IF cs = <<>> THEN <<>>
    ELSE <<Head(cs).type \o " " \o Head(cs).name \o "=" \o Head(cs).val_text>>
         \o ExpectedConstants(Tail(cs))

RECURSIVE ExpectedFields(_, _, _, _)
\* one line per field from the i-th on: the declared type for a builtin base
\* type, the fingerprint of the nested schema otherwise
ExpectedFields(s, pkg, i, fuel) ==
    IF fuel = 0 \/ i > Len(SPECS[s].types) THEN <<>>
    ELSE IF i \notin NonBuiltin(s)
    THEN <<TypeText(SPECS[s].types[i]) \o " " \o SPECS[s].names[i]>>
         \o ExpectedFields(s, pkg, i + 1, fuel)
    ELSE LET key == Qualified(base_msg_type(SPECS[s].types[i]), pkg) IN
         <<Hexdigest(Join(ExpectedConstants(SPECS[DISK[key]].constants)
                          \o ExpectedFields(DISK[key], PackageOf(key), 1, fuel - 1)))
           \o " " \o SPECS[s].names[i]>>
         \o ExpectedFields(s, pkg, i + 1, fuel)

\* the canonical text of the message s of package pkg
ExpectedText(s, pkg) ==
    Join(ExpectedConstants(SPECS[s].constants) \o ExpectedFields(s, pkg, 1, Fuel))

\* the fingerprint of the message s of package pkg
ExpectedMd5(s, pkg) == Hexdigest(ExpectedText(s, pkg))


RECURSIVE EmbeddedDoc(_, _)
\* for each dependency: the separator line, the marker line, the raw text and
\* a newline
EmbeddedDoc(reg, uniquedeps) ==
    IF uniquedeps = <<>> THEN ""
    ELSE Flat(sep) \o "MSG: " \o Head(uniquedeps) \o "\n"
         \o Flat(SPECS[reg[Head(uniquedeps)]].text) \o "\n"
         \o EmbeddedDoc(reg, Tail(uniquedeps))

\* s2 is s1 with request and response swapped
IsSwap(s1, s2) ==
    /\ SPECS[s1].kind = "srv" /\ SPECS[s2].kind = "srv"
    /\ SPECS[s2].request = SPECS[s1].response
    /\ SPECS[s2].response = SPECS[s1].request

\* the last call was get_dependencies on a message or service whose
\* dependency graph is acyclic
ResolvedAcyclic ==
    /\ last.op = "get_dependencies"
    /\ SPECS[arg.spec].kind # "other"
    /\ ~SelfDependent(arg.spec, arg.package)

\* the dict the last call of get_dependencies returned
LastBundle == Bundle(arg.spec, arg.package, arg.files, last.deps, last.uniquedeps)

-----------------------------------------------------------------------------
(* The claims *)

\* C1: a schema resolved with get_dependencies yields a bundle whose
\* fingerprint, computed twice in succession, is the same string both times,
\* under compute_md5 and under compute_md5_v1, and resolving it again after the
\* first computation gives the same deps and uniquedeps.
C1_FingerprintTwice ==
    (ResolvedAcyclic /\ HasDependency(arg.spec)) =>
        /\ last.err = "none"
        /\ compute_md5(registry, LastBundle).err = "none"
        /\ compute_md5(compute_md5(registry, LastBundle).reg, LastBundle).val
              = compute_md5(registry, LastBundle).val
        /\ compute_md5_v1(registry, LastBundle).err = "none"
        /\ compute_md5_v1(compute_md5_v1(registry, LastBundle).reg, LastBundle).val
              = compute_md5_v1(registry, LastBundle).val
        /\ get_dependencies(compute_md5(registry, LastBundle).reg,
                            arg.spec, arg.package, arg.files).val = LastBundle

\* C2: get_dependencies returns, for a schema that refers to types that are not
\* builtin, a deps list holding every such type reachable through the field
\* types under its qualified name package/Type, in pre-order depth-first
\* declaration order, whether the type was registered or had to be loaded.
C2_DepsPreOrder ==
    (ResolvedAcyclic /\ HasDependency(arg.spec)) =>
        /\ last.err = "none"
        /\ last.deps \in {ExpectedDeps(arg.spec, arg.package, TRUE),
                          ExpectedDeps(arg.spec, arg.package, FALSE)}
        /\ \A k \in 1..Len(last.deps) : last.deps[k] \in DOMAIN DISK

\* C3: the bundle get_dependencies returns has a uniquedeps without two equal
\* elements, with exactly the elements of deps, in the order of their first
\* occurrence in deps; for a service deps is the request's list followed by the
\* response's.
C3_UniqueDeps ==
    (ResolvedAcyclic /\ HasDependency(arg.spec)) =>
        /\ last.err = "none"
        /\ NoDuplicates(last.uniquedeps)
        /\ {last.uniquedeps[k] : k \in 1..Len(last.uniquedeps)}
              = {last.deps[k] : k \in 1..Len(last.deps)}
        /\ last.uniquedeps = FirstOccurrences(last.deps)
        /\ SPECS[arg.spec].kind = "srv" =>
              last.deps =
                 get_dependencies(registry, SPECS[arg.spec].request,
                                  arg.package, arg.files).val.deps
                 \o get_dependencies(registry, SPECS[arg.spec].response,
                                     arg.package, arg.files).val.deps

\* C4: in the deps list get_dependencies returns for a graph with a shared
\* type, a type occurs as many times as there are distinct reference edges to
\* it in the dependency graph reachable from the root.
C4_OccurrencesAreEdges ==
    (/\ ResolvedAcyclic
     /\ \E key \in DOMAIN DISK :
           Occurrences(ExpectedDeps(arg.spec, arg.package, TRUE), key) > 1) =>
        /\ last.err = "none"
        /\ \A key \in DOMAIN DISK :
              Occurrences(last.deps, key)
                 = Cardinality(EdgesTo(arg.spec, arg.package, key))

\* C5: a dependency name without package separator is recorded in deps
\* qualified by the package of the schema whose field refers to it, not by the
\* package handed to get_dependencies, where the two differ.
C5_ReferencingPackage ==
    (/\ ResolvedAcyclic
     /\ ExpectedDeps(arg.spec, arg.package, TRUE) # ExpectedDeps(arg.spec, arg.package, FALSE)) =>
        /\ last.err = "none"
        /\ last.deps = ExpectedDeps(arg.spec, arg.package, TRUE)

\* C6: compute_md5_text of a message is one line per constant, then one line
\* per field, the declared type kept for a builtin base type and the
\* fingerprint of the nested schema written in place of any other type, joined
\* by newlines without a final newline.
C6_CanonicalText ==
    (/\ last.op = "compute_md5_text"
     /\ SPECS[last.target].kind = "msg"
     /\ FullyRegistered
     /\ ~SelfDependent(last.target, arg.package)) =>
        /\ last.err = "none"
        /\ last.val = ExpectedText(last.target, arg.package)
        /\ last.target = "Point" => last.val = "float64 x\nfloat64 y"
        /\ (last.target = "Polygon" /\ arg.package = "pkg") =>
              last.val = Hexdigest("float64 x\nfloat64 y") \o " points"

\* C7 as amended: compute_md5 of a service returns the digest of one context
\* updated with the canonical text of the request and then with that of the
\* response, and raises when one of the two texts cannot be computed; swapping
\* request and response changes the fingerprint exactly when the two
\* concatenations of the texts differ.
C7_ServiceDigest ==
    (last.op = "compute_md5" /\ SPECS[arg.spec].kind = "srv") =>
        LET q == compute_md5_text(registry, arg, SPECS[arg.spec].request)
            p == compute_md5_text(registry, arg, SPECS[arg.spec].response)
        IN  IF q.err = "none" /\ p.err = "none"
            THEN /\ last.err = "none"
                 /\ last.val = Hexdigest(q.val \o p.val)
                 /\ arg.spec = "SrvAB" => last.val = Hexdigest("int32 aint32 b")
                 /\ \A s2 \in SrvIds :
                       IsSwap(arg.spec, s2) =>
                          /\ compute_md5(registry, [arg EXCEPT !.spec = s2]).err = "none"
                          /\ (compute_md5(registry, [arg EXCEPT !.spec = s2]).val # last.val)
                                <=> (q.val \o p.val # p.val \o q.val)
            ELSE last.err # "none"

\* a service with an empty response has the fingerprint of the swapped service
C7_Witness ==
    /\ last.op = "compute_md5"
    /\ arg.spec = "SrvAE"
    /\ last.err = "none"
    /\ last.val = Hexdigest("int32 a")
    /\ compute_md5(registry, [arg EXCEPT !.spec = "SrvEA"]).val = last.val

\* C7 as claimed: for every service with different request and response
\* schemas, swapping them changes the fingerprint compute_md5 returns.
C7_SwapChanges ==
    (/\ last.op = "compute_md5"
     /\ SPECS[arg.spec].kind = "srv"
     /\ last.err = "none"
     /\ SPECS[arg.spec].request # SPECS[arg.spec].response) =>
        \A s2 \in SrvIds :
            IsSwap(arg.spec, s2) =>
                compute_md5(registry, [arg EXCEPT !.spec = s2]).val # last.val

\* C8: compute_md5 of a message with a nested type returns a fingerprint, the
\* same for two parents that differ only in the package of a nested type of
\* the same structure, and another one for a parent whose fields or constants
\* differ in name, type, value or position.
C8_ReExportInvariance ==
    (/\ last.op = "compute_md5"
     /\ SPECS[arg.spec].kind = "msg"
     /\ HasDependency(arg.spec)
     /\ FullyRegistered
     /\ ~SelfDependent(arg.spec, arg.package)) =>
        /\ last.err = "none"
        /\ last.val = ExpectedMd5(arg.spec, arg.package)
        /\ arg.spec = "PolyP" =>
              last.val = compute_md5(registry, [arg EXCEPT !.spec = "PolyO"]).val
        /\ \A s2 \in {s \in MsgIds : ~SelfDependent(s, arg.package)} :
              (ExpectedText(s2, arg.package) # ExpectedText(arg.spec, arg.package))
                 => compute_md5(registry, [arg EXCEPT !.spec = s2]).val # last.val

\* C9 as amended: compute_full_text returns the root's raw text and a newline,
\* then for each entry d of uniquedeps the 80-character line of '=', the line
\* MSG: d, d's raw text and a newline, with the last newline removed; it raises
\* when the root has no text or an entry is not registered.
C9_FullText ==
    last.op = "compute_full_text" =>
        IF /\ SPECS[arg.spec].kind # "other"
           /\ \A k \in 1..Len(arg.uniquedeps) : arg.uniquedeps[k] \in DOMAIN registry
        THEN /\ last.err = "none"
             /\ last.val \o "\n"
                   = Flat(SPECS[arg.spec].text) \o "\n" \o EmbeddedDoc(registry, arg.uniquedeps)
             /\ (arg.spec = "IntA" /\ arg.uniquedeps = <<"pkg/Point">>) =>
                   last.val = "int32 a\n\n"
                      \o "================================================================================"
                      \o "\nMSG: pkg/Point\nfloat64 x\nfloat64 y\n"
        ELSE last.err # "none"

\* the scenario of the claim: root text "int32 a\n", one dependency pkg/Point
C9_Witness ==
    /\ last.op = "compute_full_text"
    /\ arg.spec = "IntA"
    /\ arg.uniquedeps = <<"pkg/Point">>
    /\ last.err = "none"
    /\ last.val = "int32 a\n\n" \o Rep("=", 80) \o "\nMSG: pkg/Point\nfloat64 x\nfloat64 y\n"

\* C9 as claimed: for root text "int32 a\n" and the dependency pkg/Point with
\* raw text "float64 x\nfloat64 y\n" the result is the root text, the line of
\* '=', the line MSG: pkg/Point and the dependency's text without its final
\* newline.
C9_ClaimedScenario ==
    (/\ last.op = "compute_full_text"
     /\ arg.spec = "IntA"
     /\ arg.uniquedeps = <<"pkg/Point">>
     /\ "pkg/Point" \in DOMAIN registry) =>
        /\ last.err = "none"
        /\ last.val = "int32 a\n"
              \o "================================================================================"
              \o "\nMSG: pkg/Point\nfloat64 x\nfloat64 y"

\* C10: a dependency walk that finished was the walk of an acyclic graph: for
\* a type that depends on itself get_dependencies never finishes, neither with
\* a result nor with an error.
C10_CyclicWalkNeverEnds ==
    (last.op = "get_dependencies" /\ SPECS[arg.spec].kind # "other") =>
        ~SelfDependent(arg.spec, arg.package)

=============================================================================
